---- MODULE Spec2Model ----
(***************************************************************************)
(* A model of regenesis/cube.py: the section splitter (Cube.sections), the *)
(* section decoder (Section), the cube assembler (Cube.metadata,           *)
(* dimensions, axes, times, measures, facts), the fact decoder             *)
(* (Fact.mapping) and Value identities.                                    *)
(*                                                                         *)
(* Representation.  A text line is the sequence of its ';'-separated       *)
(* fields, so '' is <<"">> and 'K;ME;x' is <<"K", "ME", "x">>.  Fields     *)
(* hold no quote, delimiter or newline character: on such lines the csv    *)
(* reader yields the line's fields and the quote repair of Section.rows    *)
(* (line 48) has nothing to replace.  A Python dict is a function whose    *)
(* domain is its key set.  An operation that may raise returns a record    *)
(* with an err field naming the exception ("none" when it returns).  A    *)
(* loop is a recursive operator; the state of its next round, like every  *)
(* intermediate result, is bound as a value (With, or CHOOSE r \in         *)
(* {Loop(.., v) : v \in {next}} : TRUE) so that it is computed once.       *)
(***************************************************************************)
EXTENDS Integers, Sequences, FiniteSets, TLC

VARIABLES
    KEYS_IGNORE,   \* the table regenesis.mappings.KEYS_IGNORE
    sec,           \* a Section under iteration: [_header, _data]
    iter_out,      \* outcome of list(section): [done, err, recs]
    fact,          \* a Fact: [cube |-> [axes, times, measures], row]
    mapping_out,   \* outcome of fact.mapping: [done, err, mapping]
    self,          \* a Cube: its attributes (name, provenance, data and the
                   \* cached views set so far), keyed by attribute name
    log,           \* per view, the outcomes [err, val] of its accesses in order
    computed,      \* per cache attribute, how often it has been assigned
    value_args,    \* the records a Value is built from: [dimension, base, assoc]
    value_obj,     \* outcome of Value(...): [done, err, val]
    value_dict     \* outcome of value.to_dict(): [done, val]

iterVars == <<sec, iter_out>>
factVars == <<fact, mapping_out>>
cubeVars == <<self, log, computed>>
valueVars == <<value_args, value_obj, value_dict>>
vars == <<KEYS_IGNORE, sec, iter_out, fact, mapping_out, self, log, computed,
          value_args, value_obj, value_dict>>

----------------------------------------------------------------------------
(* Python helpers                                                          *)

EmptyDict == [k \in {} |-> ""]

\* d.update(e): keys of e win
DictUpdate(d, e) ==
    [k \in (DOMAIN d) \cup (DOMAIN e) |-> IF k \in DOMAIN e THEN e[k] ELSE d[k]]

\* d[key] = value
DictSet(d, key, value) ==
    [k \in (DOMAIN d) \cup {key} |-> IF k = key THEN value ELSE d[k]]

\* del d[k] for every k of ks that is a key of d
DictDel(d, ks) == [k \in (DOMAIN d) \ ks |-> d[k]]

Min(a, b) == IF a < b THEN a ELSE b

\* F applied to the value of x, x computed once
With(x, F(_)) == CHOOSE r \in {F(v) : v \in {x}} : TRUE

\* seq[1:]
Rest(s) == IF Len(s) = 0 THEN <<>> ELSE Tail(s)

\* every sequence over S of length lo..hi
SeqsOf(S, lo, hi) == UNION {[1..n -> S] : n \in lo..hi}

\* the sequences over S without repetition, of length 0..hi
InjSeqsOf(S, hi) ==
    {s \in SeqsOf(S, 0, hi) : \A i, j \in 1..Len(s) : i # j => s[i] # s[j]}

----------------------------------------------------------------------------
(* Collaborators of cube.py from regenesis.formats, .util and .mappings    *)

\* regenesis.formats.parse_bool: a fixed vocabulary, fails on other tokens
parse_bool(text) ==
    IF text = "J" THEN [ok |-> TRUE, v |-> TRUE]
    ELSE IF text = "N" THEN [ok |-> TRUE, v |-> FALSE]
    ELSE [ok |-> FALSE, v |-> FALSE]

\* regenesis.formats.parse_date: (start, end) of the range a token names
parse_date(text) ==
    IF text = "2001" THEN [ok |-> TRUE, v |-> <<"2001-01-01", "2001-12-31">>]
    ELSE IF text = "2002" THEN [ok |-> TRUE, v |-> <<"2002-01-01", "2002-12-31">>]
    ELSE [ok |-> FALSE, v |-> <<"", "">>]

\* regenesis.util.make_key: a deterministic, collision-free key of the parts
make_key(parts) == <<"key", parts>>

\* regenesis.mappings.KEYS_TRANSLATE
KEYS_TRANSLATE == [c \in {"ktx_2", "ltx_2"} |->
                      IF c = "ktx_2" THEN "title_en" ELSE "description_en"]

\* regenesis.mappings.KEYS_LOCALIZED
KEYS_LOCALIZED == {"title_en", "description_en"}

\* the values the model lets the table KEYS_IGNORE take
IgnoreTables == {{}, {"trans_flag_2"}, {"title_en", "copyright"}}

----------------------------------------------------------------------------
(* FIELD_TYPES and Section                                                 *)

BoolFields == {"eu_vbd", "genesis_vbd", "regiostat", "secret_values",
               "spr_tmp", "trans_flag_2", "meta_variable", "summable",
               "atemporal"}
IntFields == {"pos_nr", "axis_order", "label_order", "float_precision"}

\* int(text) on the tokens of the model; a Python int is written as its repr
IntTokens == {"1", "2", "07", "2001", "2002"}
int(text) ==
    IF text \in IntTokens
    THEN [ok |-> TRUE, v |-> IF text = "07" THEN "7" ELSE text]
    ELSE [ok |-> FALSE, v |-> ""]

\* float(text) on the tokens of the model
float(text) ==
    IF text \in IntTokens THEN [ok |-> TRUE, v |-> <<int(text).v, ".0">>]
    ELSE IF text = "2.5" THEN [ok |-> TRUE, v |-> <<"2", ".5">>]
    ELSE [ok |-> FALSE, v |-> <<>>]

\* key in FIELD_TYPES
InFieldTypes(key) ==
    key \in BoolFields \cup IntFields \cup {"valid_from", "valid_until"}

\* FIELD_TYPES[key](value)
FIELD_TYPES(key, value) ==
    IF key \in BoolFields THEN parse_bool(value)
    ELSE IF key \in IntFields THEN int(value)
    ELSE IF key = "valid_from"
      THEN [ok |-> parse_date(value).ok, v |-> parse_date(value).v[1]]
    ELSE [ok |-> parse_date(value).ok, v |-> parse_date(value).v[2]]

\* col.lower().replace('-', '_') on the header tokens of the model
Lower == [c \in {"TRANS-FLAG-2", "KTX-2", "LTX-2", "NAME", "KEY", "COPYRIGHT",
                 "VALID-FROM", "VALID-UNTIL", "DATA-TYPE", "TITLE"} |->
           CASE c = "TRANS-FLAG-2" -> "trans_flag_2"
             [] c = "KTX-2" -> "ktx_2"
             [] c = "LTX-2" -> "ltx_2"
             [] c = "NAME" -> "name"
             [] c = "KEY" -> "key"
             [] c = "COPYRIGHT" -> "copyright"
             [] c = "VALID-FROM" -> "valid_from"
             [] c = "VALID-UNTIL" -> "valid_until"
             [] c = "DATA-TYPE" -> "data_type"
             [] c = "TITLE" -> "title"]
lower_replace(col) == IF col \in DOMAIN Lower THEN Lower[col] ELSE col

\* Section.__init__
Section(data) == [_header |-> data[1], _data |-> Rest(data)]

\* Section.columns
columns(s) ==
    [i \in 1..(Len(s._header) - 1) |->
        LET col == lower_replace(s._header[i + 1])
        IN  IF col \in DOMAIN KEYS_TRANSLATE THEN KEYS_TRANSLATE[col] ELSE col]

\* Section.rows: the csv reader gives one row per line of the joined text,
\* [] for an empty line, and nothing for the empty end an empty last line
\* leaves; row[1:] of each
rows(s) ==
    LET n == Len(s._data)
        m == IF n > 0 /\ s._data[n] = <<"">> THEN n - 1 ELSE n
    IN  [i \in 1..m |-> IF s._data[i] = <<"">> THEN <<>> ELSE Rest(s._data[i])]

\* the inner loop of Section.__iter__ (lines 60-69) from pair i on
RECURSIVE IterPairs(_, _, _, _, _, _)
IterPairs(cols, data, ignore, i, obj, is_translated) ==
    IF i > Min(Len(cols), Len(data))
    THEN [err |-> "none", obj |-> obj, is_translated |-> is_translated]
    ELSE LET key == cols[i]
             raw == data[i]
         IN  IF raw = "" THEN IterPairs(cols, data, ignore, i + 1, obj, is_translated)
             ELSE IF InFieldTypes(key) /\ ~FIELD_TYPES(key, raw).ok
             THEN [err |-> "ValueError", obj |-> obj, is_translated |-> is_translated]
             ELSE LET value == IF InFieldTypes(key) THEN FIELD_TYPES(key, raw).v ELSE raw
                      tr == IF key = "trans_flag_2" THEN value ELSE is_translated
                      o == IF key \in ignore THEN obj ELSE DictSet(obj, key, value)
                  IN  CHOOSE r \in {IterPairs(cols, data, ignore, i + 1, o1, t1) :
                                       o1 \in {o}, t1 \in {tr}} : TRUE

\* IterRow without lines 70-73
IterRow_KeepLocalized(cols, data, ignore) ==
    LET r == IterPairs(cols, data, ignore, 1, EmptyDict, TRUE)
    IN  [err |-> r.err, obj |-> r.obj]

\* one round of the outer loop of Section.__iter__ (lines 58-74)
IterRow(cols, data, ignore) ==
    With(IterPairs(cols, data, ignore, 1, EmptyDict, TRUE), LAMBDA r :
      [err |-> r.err,
       obj |-> IF r.err = "none" /\ ~r.is_translated
               THEN DictDel(r.obj, KEYS_LOCALIZED) ELSE r.obj])

\* Section.__iter__ run to its end: the records yielded, and the exception
\* that ended it, if any
RECURSIVE IterFrom(_, _, _, _, _)
IterFrom(cols, rws, ignore, i, recs) ==
    IF i > Len(rws) THEN [err |-> "none", recs |-> recs]
    ELSE With(IterRow(cols, rws[i], ignore), LAMBDA r :
           IF r.err # "none" THEN [err |-> r.err, recs |-> recs]
           ELSE With(Append(recs, r.obj), LAMBDA r1 :
                  IterFrom(cols, rws, ignore, i + 1, r1)))

iter(s, ignore) ==
    With(Rest(columns(s)), LAMBDA cols :
      With(rows(s), LAMBDA rws : IterFrom(cols, rws, ignore, 1, <<>>)))

----------------------------------------------------------------------------
(* Fact.mapping                                                            *)

\* self.row[offset], offset counted from 0
RowAt(row, offset) == row[offset + 1]

\* a bound check that refuses the last field
InRow_Strict(row, offset) == offset + 1 < Len(row)

\* whether self.row[offset] is a field (else the read raises IndexError)
InRow(row, offset) == offset < Len(row)

\* lines 94-97 from axis i on; st = [err, offset, mapping, identity_parts]
RECURSIVE AxesLoop(_, _, _, _)
AxesLoop(axes, row, i, st) ==
    IF i > Len(axes) THEN st
    ELSE IF ~InRow(row, st.offset) THEN [st EXCEPT !.err = "IndexError"]
    ELSE CHOOSE r \in {AxesLoop(axes, row, i + 1, st1) : st1 \in
           {[st EXCEPT !.mapping = DictSet(@, axes[i]["name"], RowAt(row, st.offset)),
                       !.identity_parts = Append(@, RowAt(row, st.offset)),
                       !.offset = @ + 1]}} : TRUE

\* lines 99-107 from time i on
RECURSIVE TimesLoop(_, _, _, _)
TimesLoop(times, row, i, st) ==
    IF st.err # "none" \/ i > Len(times) THEN st
    ELSE IF ~InRow(row, st.offset) THEN [st EXCEPT !.err = "IndexError"]
    ELSE IF ~parse_date(RowAt(row, st.offset)).ok THEN [st EXCEPT !.err = "ValueError"]
    ELSE CHOOSE r \in {TimesLoop(times, row, i + 1, st1) : st1 \in
           {[st EXCEPT !.mapping = DictSet(@, times[i]["name"],
                           [plain |-> RowAt(row, st.offset),
                            from |-> parse_date(RowAt(row, st.offset)).v[1],
                            until |-> parse_date(RowAt(row, st.offset)).v[2]]),
                       !.identity_parts = Append(@, RowAt(row, st.offset)),
                       !.offset = @ + 1]}} : TRUE

\* lines 112-115
MeasureValue(measure, text) ==
    IF measure["data_type"] = "GANZ" THEN int(text) ELSE float(text)

\* a stride that leaves the error field to the next measure
MeasureStride_Three == 1 + 2

\* line 120: the fields one measure takes, its value and three flags
MeasureStride == 1 + 3

\* lines 109-120 from measure i on
RECURSIVE MeasuresLoop(_, _, _, _)
MeasuresLoop(measures, row, i, st) ==
    IF st.err # "none" \/ i > Len(measures) THEN st
    ELSE IF ~InRow(row, st.offset) THEN [st EXCEPT !.err = "IndexError"]
    ELSE IF ~MeasureValue(measures[i], RowAt(row, st.offset)).ok
         THEN [st EXCEPT !.err = "ValueError"]
    ELSE IF ~InRow(row, st.offset + 1) \/ ~InRow(row, st.offset + 2)
              \/ ~InRow(row, st.offset + 3)
         THEN [st EXCEPT !.err = "IndexError"]
    ELSE LET m0 == DictDel(measures[i], {"name"})
             m == DictUpdate(m0,
                    [value |-> MeasureValue(measures[i], RowAt(row, st.offset)).v,
                     quality |-> RowAt(row, st.offset + 1),
                     locked |-> RowAt(row, st.offset + 2),
                     error |-> RowAt(row, st.offset + 3)])
         IN  CHOOSE r \in {MeasuresLoop(measures, row, i + 1, st1) : st1 \in
               {[st EXCEPT !.mapping = DictSet(@, measures[i]["name"], m),
                           !.offset = @ + MeasureStride]}} : TRUE

\* Fact.mapping
mapping(f) ==
    With([err |-> "none", offset |-> 0, mapping |-> EmptyDict, identity_parts |-> <<>>],
         LAMBDA st0 :
    With(AxesLoop(f.cube.axes, f.row, 1, st0), LAMBDA st1 :
    With(TimesLoop(f.cube.times, f.row, 1, st1), LAMBDA st2 :
    With(MeasuresLoop(f.cube.measures, f.row, 1, st2), LAMBDA st3 :
      IF st3.err # "none" THEN [err |-> st3.err, mapping |-> EmptyDict]
      ELSE [err |-> "none",
            mapping |-> DictSet(st3.mapping, "fact_id",
                                make_key(st3.identity_parts))]))))

----------------------------------------------------------------------------
(* Cube                                                                    *)

\* the key None of the section map: no field of a line is this string
None == "<None>"

\* row.startswith('K;')
startswith_K(row) == Len(row) >= 2 /\ row[1] = "K"

\* SplitLoop that starts a section afresh each time its marker recurs
RECURSIVE SplitLoop_Replace(_, _, _, _)
SplitLoop_Replace(body, i, section, sections) ==
    IF i > Len(body) THEN [err |-> "none", val |-> sections]
    ELSE IF startswith_K(body[i]) /\ Len(body[i]) < 3
         THEN [err |-> "ValueError", val |-> sections]
    ELSE LET name == IF startswith_K(body[i]) THEN body[i][2] ELSE section
             old == IF name \in DOMAIN sections /\ ~startswith_K(body[i])
                    THEN sections[name] ELSE <<>>
         IN  CHOOSE r \in {SplitLoop_Replace(body, i + 1, n1, s1) : n1 \in {name},
                              s1 \in {DictSet(sections, name, Append(old, body[i]))}} : TRUE

\* SplitLoop that drops the lines before the first marker
RECURSIVE SplitLoop_SkipUnnamed(_, _, _, _)
SplitLoop_SkipUnnamed(body, i, section, sections) ==
    IF i > Len(body) THEN [err |-> "none", val |-> sections]
    ELSE IF startswith_K(body[i]) /\ Len(body[i]) < 3
         THEN [err |-> "ValueError", val |-> sections]
    ELSE LET name == IF startswith_K(body[i]) THEN body[i][2] ELSE section
             old == IF name \in DOMAIN sections THEN sections[name] ELSE <<>>
         IN  CHOOSE r \in {SplitLoop_SkipUnnamed(body, i + 1, n1, s1) : n1 \in {name},
                              s1 \in {IF name = section /\ section = None THEN sections
                                      ELSE DictSet(sections, name, Append(old, body[i]))}} : TRUE

\* lines 181-184 from line i on; sections is the defaultdict, section the
\* current name; row.split(';', 2) gives three parts only when the line
\* has a second ';'
RECURSIVE SplitLoop(_, _, _, _)
SplitLoop(body, i, section, sections) ==
    IF i > Len(body) THEN [err |-> "none", val |-> sections]
    ELSE IF startswith_K(body[i]) /\ Len(body[i]) < 3
         THEN [err |-> "ValueError", val |-> sections]
    ELSE LET name == IF startswith_K(body[i]) THEN body[i][2] ELSE section
             old == IF name \in DOMAIN sections THEN sections[name] ELSE <<>>
         IN  CHOOSE r \in {SplitLoop(body, i + 1, n1, s1) : n1 \in {name},
                              s1 \in {DictSet(sections, name, Append(old, body[i]))}} : TRUE

\* hasattr(obj, name) that never finds the attribute
hasattr_Never(obj, name) == FALSE

\* hasattr(obj, name)
hasattr(obj, name) == name \in DOMAIN obj

\* A property returns [err, val, self, stored]: the exception or "none",
\* the value returned, the Cube's attributes afterwards and the cache
\* attributes it assigned.
Cached(slf, attr) ==
    [err |-> "none", val |-> slf[attr], self |-> slf, stored |-> {}]

\* Cube.sections
sections(slf) ==
    IF hasattr(slf, "_sections") THEN Cached(slf, "_sections")
    ELSE With(SplitLoop(slf["data"], 1, None, EmptyDict), LAMBDA r :
         With([name \in DOMAIN r.val |-> Section(r.val[name])], LAMBDA m :
           IF r.err # "none"
           THEN [err |-> r.err, val |-> EmptyDict, self |-> slf, stored |-> {}]
           ELSE [err |-> "none", val |-> m, self |-> DictSet(slf, "_sections", m),
                 stored |-> {"_sections"}]))

\* list(self.sections[name]): [err, val], val the records yielded
ListSection(S, name, ignore) ==
    IF S.err # "none" THEN [err |-> S.err, val |-> <<>>]
    ELSE IF name \notin DOMAIN S.val THEN [err |-> "KeyError", val |-> <<>>]
    ELSE With(iter(S.val[name], ignore), LAMBDA r : [err |-> r.err, val |-> r.recs])

\* self.sections[name].first
first(S, name, ignore) ==
    With(ListSection(S, name, ignore), LAMBDA L :
      IF L.err # "none" THEN [err |-> L.err, val |-> EmptyDict]
      ELSE IF Len(L.val) # 1 THEN [err |-> "AssertionError", val |-> EmptyDict]
      ELSE [err |-> "none", val |-> L.val[1]])

\* the first exception of a sequence of steps, "none" if none raises
RECURSIVE FirstErr(_)
FirstErr(errs) ==
    IF errs = <<>> THEN "none"
    ELSE IF Head(errs) # "none" THEN Head(errs) ELSE FirstErr(Tail(errs))

\* Cube.metadata
metadata(slf, ignore) ==
    IF hasattr(slf, "_metadata") THEN Cached(slf, "_metadata")
    ELSE With(sections(slf), LAMBDA S :
         With(first(S, "ERH", ignore), LAMBDA erh :
         With(first(S, "DQ", ignore), LAMBDA dq :
         With(ListSection(S, "ME", ignore), LAMBDA me :
         With(first(S, "ERH-D", ignore), LAMBDA erhd :
         With(first(S, "DQ-ERH", ignore), LAMBDA dqerh :
         With(FirstErr(<<erh.err, dq.err, me.err, erhd.err, dqerh.err>>), LAMBDA e :
         With([name |-> slf["name"], provenance |-> slf["provenance"],
               statistic |-> DictUpdate(erh.val, erhd.val),
               cube |-> DictUpdate(dq.val, dqerh.val),
               units |-> me.val], LAMBDA md :
           IF e # "none"
           THEN [err |-> e, val |-> EmptyDict, self |-> S.self, stored |-> S.stored]
           ELSE [err |-> "none", val |-> md, self |-> DictSet(S.self, "_metadata", md),
                 stored |-> S.stored \cup {"_metadata"}]))))))))

\* Value.__init__: [err, val]; del self.data['name'] raises without the key
Value(dimension, base_data, assoc_data) ==
    LET data == DictUpdate(base_data, assoc_data)
    IN  IF "name" \notin DOMAIN data THEN [err |-> "KeyError", val |-> EmptyDict]
        ELSE [err |-> "none",
              val |-> [dimension |-> dimension, data |-> DictDel(data, {"name"})]]

\* dict.get(key), None when absent
Get(d, key) == IF key \in DOMAIN d THEN d[key] ELSE None

\* Value.id
id(v) ==
    make_key(<<Get(v.data, "name"), Get(v.data, "key"), Get(v.data, "valid_from"),
               Get(v.data, "valid_until")>>)

\* Value.to_dict
Value_to_dict(v) == DictSet(v.data, "value_id", id(v))

\* Dimension.__init__; a Dimension is named here by its key in _dimensions
Dimension(data) == [data |-> data, values |-> <<>>]

\* lines 211-212 from record i on: [err, dims]
RECURSIVE DimLoop(_, _, _)
DimLoop(recs, i, dims) ==
    IF i > Len(recs) THEN [err |-> "none", dims |-> dims]
    ELSE IF "name" \notin DOMAIN recs[i] THEN [err |-> "KeyError", dims |-> dims]
    ELSE CHOOSE r \in {DimLoop(recs, i + 1, d1) : d1 \in
             {DictSet(dims, recs[i]["name"], Dimension(recs[i]))}} : TRUE

\* lines 214-215 from record i on: [err, values]
RECURSIVE ValLoop(_, _, _)
ValLoop(recs, i, values) ==
    IF i > Len(recs) THEN [err |-> "none", values |-> values]
    ELSE IF "key" \notin DOMAIN recs[i] THEN [err |-> "KeyError", values |-> values]
    ELSE CHOOSE r \in {ValLoop(recs, i + 1, v1) : v1 \in
             {DictSet(values, recs[i]["key"], recs[i])}} : TRUE

\* lines 216-217 from record i on: [err, dims]
RECURSIVE AssocLoop(_, _, _, _)
AssocLoop(recs, i, values, dims) ==
    IF i > Len(recs) THEN [err |-> "none", dims |-> dims]
    ELSE LET assoc == recs[i]
         IN  IF "name" \notin DOMAIN assoc \/ "key" \notin DOMAIN assoc
                THEN [err |-> "KeyError", dims |-> dims]
             ELSE IF assoc["name"] \notin DOMAIN dims \/ assoc["key"] \notin DOMAIN values
                THEN [err |-> "KeyError", dims |-> dims]
             ELSE LET v == Value(assoc["name"], values[assoc["key"]], assoc)
                      d == dims[assoc["name"]]
                  IN  IF v.err # "none" THEN [err |-> v.err, dims |-> dims]
                      ELSE CHOOSE r \in {AssocLoop(recs, i + 1, values, d1) : d1 \in
                             {DictSet(dims, assoc["name"],
                                      [d EXCEPT !.values = Append(@, v.val)])}} : TRUE

\* Cube.dimensions: self._dimensions is assigned first (line 210) and
\* filled in place, so it keeps what was filled when a later line raises
dimensions(slf, ignore) ==
    IF hasattr(slf, "_dimensions") THEN Cached(slf, "_dimensions")
    ELSE With(sections(DictSet(slf, "_dimensions", EmptyDict)), LAMBDA S :
         With(ListSection(S, "MM", ignore), LAMBDA mm :
         With(DimLoop(mm.val, 1, EmptyDict), LAMBDA dl :
         With(ListSection(S, "KMA", ignore), LAMBDA kma :
         With(ValLoop(kma.val, 1, EmptyDict), LAMBDA vl :
         With(ListSection(S, "KMAZ", ignore), LAMBDA kmaz :
         With(AssocLoop(kmaz.val, 1, vl.values, dl.dims), LAMBDA al :
         With(FirstErr(<<dl.err, mm.err>>), LAMBDA e1 :
         With(FirstErr(<<vl.err, kma.err>>), LAMBDA e2 :
         With(FirstErr(<<e1, e2, al.err, kmaz.err>>), LAMBDA e :
         With(IF e1 # "none" \/ e2 # "none" THEN dl.dims ELSE al.dims, LAMBDA dims :
           [err |-> e, val |-> IF e = "none" THEN dims ELSE EmptyDict,
            self |-> DictSet(S.self, "_dimensions", dims),
            stored |-> S.stored \cup {"_dimensions"}])))))))))))

\* Cube.axes, Cube.times, Cube.measures: list(self.sections[name])
ListView(slf, attr, name, ignore) ==
    IF hasattr(slf, attr) THEN Cached(slf, attr)
    ELSE With(sections(slf), LAMBDA S :
         With(ListSection(S, name, ignore), LAMBDA L :
           IF L.err # "none"
           THEN [err |-> L.err, val |-> <<>>, self |-> S.self, stored |-> S.stored]
           ELSE [err |-> "none", val |-> L.val, self |-> DictSet(S.self, attr, L.val),
                 stored |-> S.stored \cup {attr}]))

axes(slf, ignore) == ListView(slf, "_axes", "DQA", ignore)
times(slf, ignore) == ListView(slf, "_times", "DQZ", ignore)
measures(slf, ignore) == ListView(slf, "_measures", "DQI", ignore)

\* Fact.__init__; the cube a Fact refers to is the one that holds it
Fact(row) == [row |-> row]

\* Cube.facts: self._facts is assigned first (line 241) and appended to
facts(slf) ==
    IF hasattr(slf, "_facts") THEN Cached(slf, "_facts")
    ELSE With(sections(DictSet(slf, "_facts", <<>>)), LAMBDA S :
         With(IF S.err # "none" THEN S.err
              ELSE IF "QEI" \notin DOMAIN S.val THEN "KeyError" ELSE "none", LAMBDA e :
         With(IF e # "none" THEN <<>> ELSE rows(S.val["QEI"]), LAMBDA rws :
         With([i \in 1..Len(rws) |-> Fact(rws[i])], LAMBDA fs :
           [err |-> e, val |-> fs, self |-> DictSet(S.self, "_facts", fs),
            stored |-> S.stored \cup {"_facts"}]))))

----------------------------------------------------------------------------
(* Values the variables of one part hold while another part runs           *)

IdleSection ==
    /\ sec = Section(<<<<"K", "ME">>>>)
    /\ iter_out = [done |-> FALSE, err |-> "none", recs |-> <<>>]

IdleIter == KEYS_IGNORE = {} /\ IdleSection

IdleFact ==
    /\ fact = [cube |-> [axes |-> <<>>, times |-> <<>>, measures |-> <<>>], row |-> <<>>]
    /\ mapping_out = [done |-> FALSE, err |-> "none", mapping |-> EmptyDict]

Views == {"sections", "metadata", "dimensions", "axes", "times", "measures", "facts"}
CacheAttrs == {"_sections", "_metadata", "_dimensions", "_axes", "_times",
               "_measures", "_facts"}

\* Cube.__init__: data.split('\n', 1); the body is kept as its lines
Cube(name, provenance, body) ==
    [name |-> name, provenance |-> provenance, data |-> body]

NewCube(body) ==
    /\ self = Cube("cube1", "prov", body)
    /\ log = [v \in Views |-> <<>>]
    /\ computed = [a \in CacheAttrs |-> 0]

IdleCube == NewCube(<<<<"">>>>)

IdleValue ==
    /\ value_args = [dimension |-> "d1", base |-> EmptyDict, assoc |-> EmptyDict]
    /\ value_obj = [done |-> FALSE, err |-> "none", val |-> EmptyDict]
    /\ value_dict = [done |-> FALSE, val |-> EmptyDict]

----------------------------------------------------------------------------
(* Iterating one Section                                                   *)

MaxCols == 3

HeaderTokens == {"TRANS-FLAG-2", "KTX-2", "LTX-2", "NAME"}
FieldTokens == {"", "J", "N", "x"}

InitIter ==
    /\ KEYS_IGNORE \in IgnoreTables
    /\ \E h \in InjSeqsOf(HeaderTokens, MaxCols), d \in SeqsOf(FieldTokens, 0, MaxCols) :
          sec = Section(<<(<<"K", "ME">> \o h), (<<"D">> \o d)>>)
    /\ iter_out = [done |-> FALSE, err |-> "none", recs |-> <<>>]
    /\ IdleFact /\ IdleCube /\ IdleValue

\* list(section)
Section_iter ==
    /\ ~iter_out.done
    /\ \E r \in {iter(sec, KEYS_IGNORE)} :
          iter_out' = [done |-> TRUE, err |-> r.err, recs |-> r.recs]
    /\ UNCHANGED <<KEYS_IGNORE, sec, factVars, cubeVars, valueVars>>

NextIter == Section_iter

SpecIter == InitIter /\ [][NextIter]_vars

\* the columns paired with the one data row of sec, and that row
IterCols == Rest(columns(sec))
IterData == rows(sec)[1]
IterPaired == 1..Min(Len(IterCols), Len(IterData))

\* the text of the row's trans_flag_2 field, "" when no column pairs with it
FlagText ==
    IF \E i \in IterPaired : IterCols[i] = "trans_flag_2"
    THEN IterData[CHOOSE i \in IterPaired : IterCols[i] = "trans_flag_2"]
    ELSE ""

Yielded == iter_out.done /\ Len(iter_out.recs) = 1

\* C5: a record yielded from a row whose trans_flag_2 field is non-empty
\* and decodes to false has no key of KEYS_LOCALIZED, wherever the flag
\* column stands; when the flag column is absent or its text empty, every
\* localized field with text that is not ignored is still in the record.
C5_LocalizedFiltered ==
    Yielded =>
      /\ (FlagText # "" /\ parse_bool(FlagText).ok /\ ~parse_bool(FlagText).v)
            => (DOMAIN iter_out.recs[1]) \cap KEYS_LOCALIZED = {}
      /\ FlagText = ""
            => \A i \in IterPaired :
                  (IterCols[i] \in KEYS_LOCALIZED \ KEYS_IGNORE /\ IterData[i] # "")
                     => /\ IterCols[i] \in DOMAIN iter_out.recs[1]
                        /\ iter_out.recs[1][IterCols[i]] = IterData[i]

\* a record was yielded from a row with a false flag that stands after a
\* localized field with text
C5_Witness ==
    /\ Yielded
    /\ FlagText = "N"
    /\ \E i, j \in IterPaired :
          /\ i < j
          /\ IterCols[j] = "trans_flag_2"
          /\ IterCols[i] \in KEYS_LOCALIZED \ KEYS_IGNORE
          /\ IterData[i] # ""

----------------------------------------------------------------------------
(* Decoding one fact row                                                   *)

MaxAxes == 2
MaxTimes == 1
MaxMeasures == 2
MaxExtra == 1

AxisNames == <<"a1", "a2", "a3", "a4">>
TimeNames == <<"t1", "t2", "t3", "t4">>
MeasureNames == <<"m1", "m2", "m3", "m4">>
DataTypes == {"GANZ", "FLOAT"}

\* the field count a schema demands
Demand(cube) ==
    Len(cube.axes) + Len(cube.times) + 4 * Len(cube.measures)

\* schemas: records as the sections DQA, DQZ, DQI give them, names distinct
Schemas ==
    {[axes |-> [i \in 1..a |-> [name |-> AxisNames[i]]],
      times |-> [i \in 1..t |-> [name |-> TimeNames[i]]],
      measures |-> [i \in 1..Len(dt) |->
                      [name |-> MeasureNames[i], data_type |-> dt[i], title |-> "T"]]] :
        a \in 0..MaxAxes, t \in 0..MaxTimes, dt \in SeqsOf(DataTypes, 0, MaxMeasures)}

\* rows of n fields: every field decodable, but for at most one field
\* that differs from the others or is not a number or not a date
RowsOfLen(n) ==
    {[i \in 1..n |-> IF i = p THEN tok ELSE "2001"] :
        p \in 0..n, tok \in {"2002", "2.5", "x"}}

InitFact ==
    /\ \E c \in Schemas :
         \E n \in 0..(Demand(c) + MaxExtra) :
           \E r \in RowsOfLen(n) : fact = [cube |-> c, row |-> r]
    /\ mapping_out = [done |-> FALSE, err |-> "none", mapping |-> EmptyDict]
    /\ IdleIter /\ IdleCube /\ IdleValue

\* Fact.to_dict / fact.mapping
Fact_mapping ==
    /\ ~mapping_out.done
    /\ \E r \in {mapping(fact)} :
          mapping_out' = [done |-> TRUE, err |-> r.err, mapping |-> r.mapping]
    /\ UNCHANGED <<KEYS_IGNORE, iterVars, fact, cubeVars, valueVars>>

NextFact == Fact_mapping

SpecFact == InitFact /\ [][NextFact]_vars

NAxes == Len(fact.cube.axes)
NTimes == Len(fact.cube.times)
NMeasures == Len(fact.cube.measures)

\* C1 as stated: a row whose length differs from the demand, shorter or
\* longer, fails; a row of exactly that length does not fail for its length.
C1_AnyLengthMismatchFails ==
    mapping_out.done =>
      /\ Len(fact.row) # Demand(fact.cube) => mapping_out.err # "none"
      /\ Len(fact.row) = Demand(fact.cube) => mapping_out.err # "IndexError"

\* C1 amended: a row shorter than the demand fails; a row of that length
\* or longer never fails for its field count.
C1_ShortRowFails ==
    mapping_out.done =>
      /\ Len(fact.row) < Demand(fact.cube) => mapping_out.err # "none"
      /\ Len(fact.row) >= Demand(fact.cube) => mapping_out.err # "IndexError"

\* a row that ends inside a measure's four fields was refused
C1_Witness ==
    /\ mapping_out.done
    /\ NMeasures > 0
    /\ Len(fact.row) < Demand(fact.cube)
    /\ Len(fact.row) > NAxes + NTimes
    /\ mapping_out.err = "IndexError"

\* C9: on a row of exactly the demanded length Fact.mapping gives axis i
\* the field i, time j the field A+j, measure k the four fields from
\* A+T+4(k-1)+1 on as value, quality, locked, error, and the identity is
\* the key of the first A+T raw fields in order.
C9_PositionalDecode ==
    (mapping_out.done /\ Len(fact.row) = Demand(fact.cube) /\ mapping_out.err = "none") =>
      LET mp == mapping_out.mapping
          row == fact.row
          cube == fact.cube
      IN  /\ \A i \in 1..NAxes : mp[cube.axes[i]["name"]] = row[i]
          /\ \A j \in 1..NTimes :
                /\ mp[cube.times[j]["name"]]["plain"] = row[NAxes + j]
                /\ mp[cube.times[j]["name"]]["from"] = parse_date(row[NAxes + j]).v[1]
                /\ mp[cube.times[j]["name"]]["until"] = parse_date(row[NAxes + j]).v[2]
          /\ \A k \in 1..NMeasures :
                LET base == NAxes + NTimes + 4 * (k - 1)
                    m == mp[cube.measures[k]["name"]]
                IN  /\ m["value"] = MeasureValue(cube.measures[k], row[base + 1]).v
                    /\ m["quality"] = row[base + 2]
                    /\ m["locked"] = row[base + 3]
                    /\ m["error"] = row[base + 4]
          /\ mp["fact_id"] = make_key(SubSeq(row, 1, NAxes + NTimes))

\* a full row of two axes, a time and two measures was decoded, one of
\* the second measure's fields differing from all other fields
C9_Witness ==
    /\ mapping_out.done
    /\ mapping_out.err = "none"
    /\ NAxes = 2 /\ NTimes = 1 /\ NMeasures = 2
    /\ Len(fact.row) = Demand(fact.cube)
    /\ \E p \in 8..11 : fact.row[p] = "2002"

----------------------------------------------------------------------------
(* Building one Value                                                      *)

\* dicts of the given optional fields: opts maps a key to its possible
\* values, "" standing for an absent key
OptDicts(opts) ==
    {DictDel(f, {k \in DOMAIN f : f[k] = ""}) : f \in [DOMAIN opts -> UNION {opts[k] : k \in DOMAIN opts}] \cap
        {g \in [DOMAIN opts -> UNION {opts[k] : k \in DOMAIN opts}] : \A k \in DOMAIN opts : g[k] \in opts[k]}}

\* catalog records (section KMA) and association records (section KMAZ)
BaseRecords ==
    OptDicts([key |-> {"k1", "k2"}, name |-> {"", "n0"},
              valid_from |-> {"", "2001-01-01"}, title |-> {"", "One"}])
AssocRecords ==
    OptDicts([name |-> {"", "d1", "d2"}, key |-> {"", "k1"},
              valid_until |-> {"", "2001-12-31"}])

InitValue ==
    /\ \E b \in BaseRecords, a \in AssocRecords, d \in {"d1", "d2"} :
          value_args = [dimension |-> d, base |-> b, assoc |-> a]
    /\ value_obj = [done |-> FALSE, err |-> "none", val |-> EmptyDict]
    /\ value_dict = [done |-> FALSE, val |-> EmptyDict]
    /\ IdleIter /\ IdleFact /\ IdleCube

\* Dimension.add_value: Value(self, base_data, assoc_data)
Value_init ==
    /\ ~value_obj.done
    /\ LET r == Value(value_args.dimension, value_args.base, value_args.assoc)
       IN  value_obj' = [done |-> TRUE, err |-> r.err, val |-> r.val]
    /\ UNCHANGED <<KEYS_IGNORE, iterVars, factVars, cubeVars, value_args, value_dict>>

\* value.to_dict()
Value_export ==
    /\ value_obj.done /\ value_obj.err = "none" /\ ~value_dict.done
    /\ value_dict' = [done |-> TRUE, val |-> Value_to_dict(value_obj.val)]
    /\ UNCHANGED <<KEYS_IGNORE, iterVars, factVars, cubeVars, value_args, value_obj>>

NextValue == Value_init \/ Value_export

SpecValue == InitValue /\ [][NextValue]_vars

\* the record merged from the catalog and the association record
Merged == DictUpdate(value_args.base, value_args.assoc)

\* C4: the exported identity of a Value is the key of the four parts name,
\* key, valid_from, valid_until of the record merged from its catalog and
\* association records.
C4_IdentityFromMergedRecord ==
    value_dict.done =>
      value_dict.val["value_id"] =
        make_key(<<Get(Merged, "name"), Get(Merged, "key"),
                   Get(Merged, "valid_from"), Get(Merged, "valid_until")>>)

----------------------------------------------------------------------------
(* Accessing the views of one Cube                                         *)

MaxAccess == 3
MaxMissing == 1
MaxAssoc == 2
MaxLines == 4

SectionNames == {"ERH", "ERH-D", "DQ", "DQ-ERH", "ME", "MM", "KMA", "KMAZ",
                 "DQA", "DQZ", "DQI", "QEI"}

\* the association lines a body may hold: two that resolve, one naming a
\* dimension MM does not define, one naming a key KMA does not hold
AssocLines == {<<"D", "d1", "k1", "2001">>, <<"D", "d2", "k1", "">>,
               <<"D", "d3", "k1", "">>, <<"D", "d1", "k9", "">>}
StdAssoc == <<<<"D", "d1", "k1", "2001">>, <<"D", "d2", "k1", "">>>>

\* the lines of one section of a well-formed export
Block(name, assoc) ==
    CASE name = "ERH" -> <<<<"K", "ERH", "NAME", "TITLE">>, <<"D", "11111", "Stat">>>>
      [] name = "ERH-D" -> <<<<"K", "ERH-D", "TITLE", "COPYRIGHT">>, <<"D", "Detail", "c">>>>
      [] name = "DQ" -> <<<<"K", "DQ", "NAME", "TITLE">>, <<"D", "cube1", "Cube">>>>
      [] name = "DQ-ERH" -> <<<<"K", "DQ-ERH", "VALID-FROM">>, <<"D", "2001">>>>
      [] name = "ME" -> <<<<"K", "ME", "NAME", "TITLE">>, <<"D", "u1", "Unit">>>>
      [] name = "MM" -> <<<<"K", "MM", "NAME", "TITLE">>, <<"D", "d1", "Dim1">>,
                          <<"D", "d2", "Dim2">>>>
      [] name = "KMA" -> <<<<"K", "KMA", "KEY", "TITLE">>, <<"D", "k1", "One">>,
                           <<"D", "k2", "Two">>>>
      [] name = "KMAZ" -> <<<<"K", "KMAZ", "NAME", "KEY", "VALID-UNTIL">>>> \o assoc
      [] name = "DQA" -> <<<<"K", "DQA", "NAME">>, <<"D", "d1">>>>
      [] name = "DQZ" -> <<<<"K", "DQZ", "NAME">>, <<"D", "t1">>>>
      [] name = "DQI" -> <<<<"K", "DQI", "NAME", "DATA-TYPE">>, <<"D", "m1", "GANZ">>>>
      [] name = "QEI" -> <<<<"K", "QEI", "FACH-SCHL">>,
                           <<"D", "k1", "2001", "1", "e", "", "0">>,
                           <<"D", "k2", "2001", "2", "e", "", "0">>, <<"">>>>

SectionOrder == <<"ERH", "ERH-D", "DQ", "DQ-ERH", "ME", "MM", "KMA", "KMAZ",
                  "DQA", "DQZ", "DQI", "QEI">>

\* the blocks of the sections not in absent, in the order of the export
RECURSIVE BodyFrom(_, _, _)
BodyFrom(i, absent, assoc) ==
    IF i > Len(SectionOrder) THEN <<>>
    ELSE (IF SectionOrder[i] \in absent THEN <<>> ELSE Block(SectionOrder[i], assoc))
         \o BodyFrom(i + 1, absent, assoc)

\* lines that may stand before the first section: a stray line, and a
\* marker without a third field
StrayLines == {<<"x", "y">>, <<"K", "ZZ">>}

\* exports that lack up to MaxMissing sections, complete exports with up
\* to MaxAssoc association lines, and complete exports after a stray line
CubeBodies ==
    {BodyFrom(1, absent, StdAssoc) :
        absent \in {a \in SUBSET SectionNames : Cardinality(a) <= MaxMissing}}
    \cup {BodyFrom(1, {}, assoc) : assoc \in SeqsOf(AssocLines, 0, MaxAssoc)}
    \cup {<<l>> \o BodyFrom(1, {}, StdAssoc) : l \in StrayLines}

InitCube ==
    /\ KEYS_IGNORE = {"copyright"}
    /\ \E body \in CubeBodies : NewCube(body)
    /\ IdleSection /\ IdleFact /\ IdleValue

TotalCalls ==
    Len(log["sections"]) + Len(log["metadata"]) + Len(log["dimensions"])
    + Len(log["axes"]) + Len(log["times"]) + Len(log["measures"]) + Len(log["facts"])

\* one access of a view, r what the property did
Access(view, result) ==
    /\ TotalCalls < MaxAccess
    /\ \E r \in {result} :
          /\ self' = r.self
          /\ log' = [log EXCEPT ![view] = Append(@, [err |-> r.err, val |-> r.val])]
          /\ computed' = [a \in CacheAttrs |->
                             computed[a] + (IF a \in r.stored THEN 1 ELSE 0)]
    /\ UNCHANGED <<KEYS_IGNORE, iterVars, factVars, valueVars>>

Cube_sections == Access("sections", sections(self))
Cube_metadata == Access("metadata", metadata(self, KEYS_IGNORE))
Cube_dimensions == Access("dimensions", dimensions(self, KEYS_IGNORE))
Cube_axes == Access("axes", axes(self, KEYS_IGNORE))
Cube_times == Access("times", times(self, KEYS_IGNORE))
Cube_measures == Access("measures", measures(self, KEYS_IGNORE))
Cube_facts == Access("facts", facts(self))

NextCube ==
    \/ Cube_sections
    \/ Cube_metadata
    \/ Cube_dimensions
    \/ Cube_axes
    \/ Cube_times
    \/ Cube_measures
    \/ Cube_facts

SpecCube == InitCube /\ [][NextCube]_vars

Body == self["data"]
Markers == {i \in 1..Len(Body) : startswith_K(Body[i])}
BodyNames == {Body[i][2] : i \in Markers}

\* the sections each view reads
Needs == [metadata |-> {"ERH", "DQ", "ME", "ERH-D", "DQ-ERH"},
          dimensions |-> {"MM", "KMA", "KMAZ"},
          axes |-> {"DQA"}, times |-> {"DQZ"}, measures |-> {"DQI"},
          facts |-> {"QEI"}]

\* every access of view v made so far raised
AlwaysFailed(v) == \A i \in 1..Len(log[v]) : log[v][i].err # "none"

\* C3: a view that needs a section the body lacks fails on its first and
\* on every repeated access; no empty list or map stands in for it.
C3_MissingSectionAlwaysFails ==
    \A v \in DOMAIN Needs : (Needs[v] \ BodyNames # {}) => AlwaysFailed(v)

\* the records of a section of the body, decoded on their own
RecordsOf(name) ==
    ListSection(sections(Cube("cube1", "prov", Body)), name, KEYS_IGNORE).val

\* some association record names a key the catalog lacks or a dimension
\* the definitions lack
Dangling ==
    /\ {"MM", "KMA", "KMAZ"} \subseteq BodyNames
    /\ \E i \in 1..Len(RecordsOf("KMAZ")) :
          \/ \A j \in 1..Len(RecordsOf("KMA")) :
                RecordsOf("KMA")[j]["key"] # RecordsOf("KMAZ")[i]["key"]
          \/ \A j \in 1..Len(RecordsOf("MM")) :
                RecordsOf("MM")[j]["name"] # RecordsOf("KMAZ")[i]["name"]

\* C2: with an association that names an absent catalog key or an absent
\* dimension, every access of Cube.dimensions fails, the first and the
\* later ones; none returns a partly filled map.
C2_DanglingAlwaysFails == Dangling => AlwaysFailed("dimensions")

\* C6: each cache attribute is assigned at most once, and once an access
\* of a view has returned, every later access of it returns that value.
C6_ComputedOnce ==
    /\ \A a \in CacheAttrs : computed[a] <= 1
    /\ \A v \in Views : \A i, j \in 1..Len(log[v]) :
          (i < j /\ log[v][i].err = "none")
             => (log[v][j].err = "none" /\ log[v][j].val = log[v][i].val)

\* sections was read twice and dimensions once, all returning, the
\* dimensions holding values
C6_Witness ==
    /\ Len(log["sections"]) = 2 /\ log["sections"][1].err = "none"
    /\ Len(log["dimensions"]) = 1 /\ log["dimensions"][1].err = "none"
    /\ \E d \in DOMAIN log["dimensions"][1].val :
          Len(log["dimensions"][1].val[d].values) > 0
    /\ computed["_sections"] = 1 /\ computed["_dimensions"] = 1

----------------------------------------------------------------------------
(* Splitting arbitrary bodies                                              *)

\* lines a body is made of: markers of two sections, a marker without a
\* third field, data lines, the empty line
SplitLines == {<<"K", "ME", "NAME">>, <<"K", "QEI", "F">>, <<"K", "ME">>,
               <<"D", "a">>, <<"X", "b", "c">>, <<"">>}

InitSplit ==
    /\ KEYS_IGNORE = {"copyright"}
    /\ \E body \in SeqsOf(SplitLines, 1, MaxLines) : NewCube(body)
    /\ IdleSection /\ IdleFact /\ IdleValue

NextSplit == Cube_sections

SpecSplit == InitSplit /\ [][NextSplit]_vars

SectionsReturned == Len(log["sections"]) > 0 /\ log["sections"][1].err = "none"
SecMap == log["sections"][1].val

\* the lines a Section was made of
LinesIn(s) == <<s._header>> \o s._data

\* the name of the last marker at or before line i, None before the first
Owner(i) ==
    IF \E j \in Markers : j <= i
    THEN Body[CHOOSE j \in Markers : j <= i /\ \A k \in Markers : k <= i => k <= j][2]
    ELSE None

\* the lines of the body that Owner gives to name, in body order
OwnedIdx(name) ==
    LET Owns(i) == Owner(i) = name
    IN  SelectSeq([i \in 1..Len(Body) |-> i], Owns)
OwnedLines(name) == [k \in 1..Len(OwnedIdx(name)) |-> Body[OwnedIdx(name)[k]]]

\* C7: every line at or after the first marker is in the section named by
\* the last marker at or before it, the marker included; a section holds
\* exactly those lines, in body order, also when its name recurs.
C7_LinesByLastMarker ==
    SectionsReturned =>
      /\ DOMAIN SecMap \ {None} = BodyNames
      /\ \A name \in BodyNames : LinesIn(SecMap[name]) = OwnedLines(name)

\* a body was split whose first section recurs after another section
C7_Witness ==
    /\ SectionsReturned
    /\ \E i, j, k \in Markers :
          i < j /\ j < k /\ Body[i][2] = Body[k][2] /\ Body[j][2] # Body[i][2]

\* C8 as stated: a body without a marker line gives the empty map.
C8_NoMarkerEmptyMap ==
    (SectionsReturned /\ Markers = {}) => DOMAIN SecMap = {}

\* C8 amended: a body without a marker line gives a map with no entry
\* under any section name; its one entry, under None, holds every line.
C8_NoMarkerOnlyUnnamed ==
    (SectionsReturned /\ Markers = {})
       => (DOMAIN SecMap = {None} /\ LinesIn(SecMap[None]) = Body)

\* a body of several lines and no marker was split
C8_Witness == SectionsReturned /\ Markers = {} /\ Len(Body) >= 2

\* C10: in every named section only the first line is a marker line; no
\* data line of it, which iteration decodes as a record, is a marker line.
C10_OnlyHeaderIsMarker ==
    SectionsReturned =>
      \A name \in DOMAIN SecMap \ {None} :
        /\ startswith_K(SecMap[name]._header)
        /\ \A i \in 1..Len(SecMap[name]._data) : ~startswith_K(SecMap[name]._data[i])

====
